---- MODULE Spec2Model ----
(***************************************************************************)
(* A model of myshell.c: the read loop of main, the sscanf/strncmp         *)
(* dispatch of main and execute_command, and the built-ins do_cd, do_ls,   *)
(* do_cat, do_mkdir, do_rmdir, do_pwd, do_rm, do_stat and do_q, run        *)
(* against a small file system.                                            *)
(*                                                                         *)
(* A character is a one-character string, a C string is the sequence of    *)
(* its characters before the terminating NUL.  One step of the model is    *)
(* one iteration of the while loop of main.                                *)
(***************************************************************************)
EXTENDS Integers, Sequences, FiniteSets, TLC

\* ------------------------------------------------------------------------
\* Program constants
\* ------------------------------------------------------------------------
BUFFER_SIZE == 256
MAX_PATH_LENGTH == 256
MAX_FILENAME_LENGTH == 256

\* ------------------------------------------------------------------------
\* Bounds of the exploration
\* ------------------------------------------------------------------------
\* Number of loop iterations explored.
MaxCmds == 3
\* Number of bytes below buffer[0] that strip_trailing_whitespace may find
\* holding whitespace before it meets one that does not.
MaxUnder == 1

\* ------------------------------------------------------------------------
\* Characters and C strings
\* ------------------------------------------------------------------------
SP == " "
TAB == "\t"
NL == "\n"

\* <ctype.h> isspace, on the characters the model uses.
IsSpace(c) == c \in {SP, TAB, NL}

Rep(c, k) == [i \in 1..k |-> c]

Min(a, b) == IF a < b THEN a ELSE b

\* s without its first k elements, and the first k elements of s.
Drop(s, k) == IF k >= Len(s) THEN <<>> ELSE SubSeq(s, k + 1, Len(s))

Take(s, k) == IF k <= 0 THEN <<>> ELSE SubSeq(s, 1, Min(k, Len(s)))

\* Index of the first element of s from position i on that is (want = TRUE)
\* or is not (want = FALSE) whitespace; Len(s) + 1 when there is none.
Scan(s, i, want) ==
  LET hit(j) == IsSpace(s[j]) = want
  IN  IF \E j \in i..Len(s) : hit(j)
      THEN CHOOSE j \in i..Len(s) : hit(j) /\ \A k \in i..(j - 1) : ~hit(k)
      ELSE Len(s) + 1

IsPrefix(p, s) == Len(p) <= Len(s) /\ Take(s, Len(p)) = p

\* The whitespace-delimited tokens of s, in order.
RECURSIVE Tokens(_)
Tokens(s) ==
  LET b == Scan(s, 1, FALSE)
      e == Scan(s, b, TRUE)
  IN  IF b > Len(s) THEN <<>>
      ELSE <<SubSeq(s, b, e - 1)>> \o Tokens(Drop(s, e - 1))

\* ------------------------------------------------------------------------
\* The C library calls the dispatch rests on
\* ------------------------------------------------------------------------

\* sscanf(buffer, "<verb> %s", filename).  The literal characters of the
\* format must match the input exactly (no whitespace is skipped before
\* them); the blank of the format matches any run of whitespace, the empty
\* one too; %s skips whitespace and takes the longest run of non-whitespace.
\* n is sscanf's result: 1 with the token stored, 0 on a mismatch, -1 (EOF)
\* when the input ends before the conversion.
Sscanf(buf, verb) ==
  IF ~IsPrefix(verb, buf)
  THEN [n |-> IF IsPrefix(buf, verb) THEN -1 ELSE 0, tok |-> <<>>]
  ELSE LET rest == Drop(buf, Len(verb))
           b == Scan(rest, 1, FALSE)
           e == Scan(rest, b, TRUE)
       IN  IF b > Len(rest) THEN [n |-> -1, tok |-> <<>>]
           ELSE [n |-> 1, tok |-> SubSeq(rest, b, e - 1)]

\* !strncmp(buffer, word, BUFFER_SIZE): both strings are shorter than
\* BUFFER_SIZE, so the comparison is of the whole strings.
StrEq(buf, word) == Take(buf, BUFFER_SIZE) = Take(word, BUFFER_SIZE)

\* fgets(buffer, BUFFER_SIZE, stdin) on the bytes waiting in stdin, which end
\* with a newline: at most BUFFER_SIZE - 1 characters, through the first
\* newline.  rest is what stays in stdin for the next call.
Fgets(stream) ==
  LET nl == CHOOSE i \in 1..Len(stream) :
              stream[i] = NL /\ \A j \in 1..(i - 1) : stream[j] # NL
      k == Min(BUFFER_SIZE - 1, nl)
  IN  [buf |-> Take(stream, k), rest |-> Drop(stream, k)]

\* The loop of strip_trailing_whitespace from C index i down.  s holds the
\* characters before the NUL; writing 0 at index i ends the string there.
\* under is the number of bytes just below string[0] that hold whitespace:
\* the loop reads (and zeroes) them when it runs off the front of the array,
\* and stops at the first byte that is not whitespace.  low is the lowest
\* index the loop read.
RECURSIVE StripLoop(_, _, _)
StripLoop(s, i, under) ==
  IF i >= 0
  THEN IF IsSpace(s[i + 1])
       THEN StripLoop(Take(s, i), i - 1, under)
       ELSE [str |-> s, low |-> i]
  ELSE [str |-> s, low |-> -(under + 1)]

\* strip_trailing_whitespace(string)
strip_trailing_whitespace(s, under) ==
  StripLoop(s, Len(Take(s, BUFFER_SIZE)) - 1, under)

\* ------------------------------------------------------------------------
\* The file system
\* ------------------------------------------------------------------------
\* A name is a string of characters, a path is the sequence of the names from
\* the root; <<>> is the root directory.  dirs and files are the sets of the
\* paths that exist.  Every process has search and write permission
\* everywhere.

SLASH == "/"
DOT == <<".">>
DOTDOT == <<".", ".">>

Parent(p) == IF p = <<>> THEN <<>> ELSE Take(p, Len(p) - 1)

\* The components of a path string: the runs between slashes.
RECURSIVE Split(_)
Split(s) ==
  IF s = <<>> THEN <<>>
  ELSE LET J == {i \in 1..Len(s) : s[i] = SLASH}
           j == IF J = {} THEN Len(s) + 1
                ELSE CHOOSE i \in J : \A k \in J : i <= k
           head == Take(s, j - 1)
       IN  (IF head = <<>> THEN <<>> ELSE <<head>>) \o Split(Drop(s, Min(j, Len(s))))

\* The absolute path string of p.
RECURSIVE PathStr(_)
PathStr(p) ==
  IF p = <<>> THEN <<>> ELSE PathStr(Parent(p)) \o <<SLASH>> \o p[Len(p)]

AbsStr(p) == IF p = <<>> THEN <<SLASH>> ELSE PathStr(p)

\* Path resolution from directory cur over the components comps.  kind is
\* "dir" or "file" for what the path names, "none" when only its last
\* component is missing; err is "" or the errno of the failed lookup.  A
\* working directory that was removed holds no names.
RECURSIVE Walk(_, _, _, _)
Walk(cur, comps, d, f) ==
  IF comps = <<>> THEN [err |-> "", path |-> cur, kind |-> "dir"]
  ELSE LET c == Head(comps)
           nxt == Append(cur, c)
       IN  IF c = DOT THEN Walk(cur, Tail(comps), d, f)
           ELSE IF c = DOTDOT THEN Walk(Parent(cur), Tail(comps), d, f)
           ELSE IF cur \notin d
                THEN [err |-> "ENOENT", path |-> nxt, kind |-> "none"]
           ELSE IF nxt \in d THEN Walk(nxt, Tail(comps), d, f)
           ELSE IF nxt \in f
                THEN IF Tail(comps) = <<>>
                     THEN [err |-> "", path |-> nxt, kind |-> "file"]
                     ELSE [err |-> "ENOTDIR", path |-> nxt, kind |-> "file"]
           ELSE IF Tail(comps) = <<>>
                THEN [err |-> "", path |-> nxt, kind |-> "none"]
                ELSE [err |-> "ENOENT", path |-> nxt, kind |-> "none"]

\* What the path string tok names for a process whose working directory is c.
Lookup(tok, c, d, f) ==
  IF tok = <<>> THEN [err |-> "ENOENT", path |-> <<>>, kind |-> "none"]
  ELSE Walk(IF tok[1] = SLASH THEN <<>> ELSE c, Split(tok), d, f)

\* The last component of a path string, <<>> for "/".
LastComp(tok) ==
  LET cs == Split(tok) IN IF cs = <<>> THEN <<>> ELSE cs[Len(cs)]

\* The names in directory p, in the order readdir yields them: ".", "..",
\* then the entries by length and, within a length, in one fixed order.
RECURSIVE Ordered(_)
Ordered(S) ==
  IF S = {} THEN <<>>
  ELSE LET m == CHOOSE x \in S : \A y \in S : Len(x) <= Len(y)
       IN  <<m>> \o Ordered(S \ {m})

Entries(p, d, f) ==
  <<DOT, DOTDOT>> \o
  Ordered({q[Len(q)] : q \in {r \in d \cup f : r # <<>> /\ Parent(r) = p}})

\* ------------------------------------------------------------------------
\* Output
\* ------------------------------------------------------------------------
\* An output event is [k, t, s]: k is "out" for printf/fprintf(stdout, ...),
\* "w1" for write(1, ...) and "err" for fprintf(stderr, ...); t is the kind
\* of text (for a diagnostic, the name it is prefixed with) and s the text
\* the kind is filled with.
Out(t, s) == [k |-> "out", t |-> t, s |-> s]
W1(t, s) == [k |-> "w1", t |-> t, s |-> s]
Err(t, s) == [k |-> "err", t |-> t, s |-> s]

Item(e) == [t |-> e.t, s |-> e.s]

\* Every text printed to stdout ends with a newline, the prompt excepted.
EndsLine(e) == e.t # "prompt"

\* What unflushed output of earlier iterations is kept as.
Earlier == [t |-> "earlier", s |-> <<>>]

\* The events evs, in order, applied to acc = [err, printed, out, obuf]:
\* stderr is unbuffered; write(1) goes to descriptor 1 at once; printf goes to
\* the buffer of stdout, which is written to descriptor 1 at a newline when
\* stdout is line buffered (a terminal) and stays where it is when stdout is
\* fully buffered (a pipe, a file).
RECURSIVE Emit(_, _, _)
Emit(evs, acc, mode) ==
  IF evs = <<>> THEN acc
  ELSE LET e == Head(evs)
           nxt ==
             CASE e.k = "err" -> [acc EXCEPT !.err = Append(@, Item(e))]
               [] e.k = "w1" ->
                    [acc EXCEPT !.printed = Append(@, Item(e)),
                                !.out = Append(@, Item(e))]
               [] OTHER ->
                    IF mode = "line" /\ EndsLine(e)
                    THEN [acc EXCEPT !.printed = Append(@, Item(e)),
                                     !.out = @ \o acc.obuf \o <<Item(e)>>,
                                     !.obuf = <<>>]
                    ELSE [acc EXCEPT !.printed = Append(@, Item(e)),
                                     !.obuf = Append(@, Item(e))]
       IN  Emit(Tail(evs), nxt, mode)

\* exit() writes the buffer of stdout out.
Flush(acc) == [acc EXCEPT !.out = @ \o acc.obuf, !.obuf = <<>>]

\* ------------------------------------------------------------------------
\* The built-ins
\* ------------------------------------------------------------------------
\* A built-in yields [ret, ev, dirs, files, cwd, opened, closed, proc]: its
\* return value, its output events, the file system and the working
\* directory it leaves, the handles it acquired and released, and whether the
\* process is still running.
Result(ret, ev, d, f, c) ==
  [ret |-> ret, ev |-> ev, dirs |-> d, files |-> f, cwd |-> c,
   opened |-> 0, closed |-> 0, proc |-> "running"]

\* The home directory of the user's passwd record.
Home == <<SLASH, "h">>

\* A directory name an invalid pointer may happen to point at.
Junk == <<"n", "x">>

\* chdir(dirname) and the rest of do_cd.
CdTo(dirname, d, f, c) ==
  LET r == Lookup(dirname, c, d, f)
      e == IF r.err # "" THEN r.err
           ELSE IF r.kind = "none" THEN "ENOENT"
           ELSE IF r.kind = "file" THEN "ENOTDIR" ELSE ""
  IN  IF e # ""
      THEN Result(-1, <<Err("cd", <<e>>)>>, d, f, c)
      ELSE Result(0, <<>>, d, f, r.path)

\* do_cd(dirname).  pw is what getpwuid(getuid()) returns and the outcome of
\* reading through it when it is NULL: "ok" (a record), "segv" (NULL, and the
\* read of p->pw_dir faults) or "junk" (NULL, and the read yields some
\* string).
do_cd(dirname, pw, d, f, c) ==
  IF Len(Take(dirname, MAX_PATH_LENGTH)) = 0
  THEN CASE pw = "ok" -> CdTo(Take(Home, MAX_PATH_LENGTH), d, f, c)
         [] pw = "segv" -> [Result(0, <<>>, d, f, c) EXCEPT !.proc = "crashed"]
         [] OTHER -> CdTo(Junk, d, f, c)
  ELSE CdTo(dirname, d, f, c)

PwOutcomes(dirname) ==
  IF dirname = <<>> THEN {"ok", "segv", "junk"} ELSE {"ok"}

\* getcwd(current_dir, MAX_PATH_LENGTH): "" or the errno it fails with.
Getcwd(d, c) ==
  IF c \notin d THEN "ENOENT"
  ELSE IF Len(AbsStr(c)) + 1 > MAX_PATH_LENGTH THEN "ERANGE"
  ELSE ""

\* The readdir results of one do_ls call on the entries es.  Each is
\* [name, e]: the entry's name (<<>> for NULL) and the errno the call, or the
\* printf before it, sets ("" when errno is left alone).  ev names what
\* happens: "eof" (the entries, then NULL), "readerr" (ev.at entries, then
\* NULL with errno set) or "dirty" (entry ev.at arrives with errno set).
ReaddirScript(es, ev) ==
  LET ok(k) == [i \in 1..k |-> [name |-> es[i], e |-> ""]]
  IN  CASE ev.kind = "eof" -> Append(ok(Len(es)), [name |-> <<>>, e |-> ""])
        [] ev.kind = "readerr" -> Append(ok(ev.at), [name |-> <<>>, e |-> "EIO"])
        [] OTHER -> Append(ok(ev.at - 1), [name |-> es[ev.at], e |-> "EIO"])

LsEvents(n) ==
  {[kind |-> "eof", at |-> n]}
  \cup {[kind |-> "readerr", at |-> k] : k \in 0..n}
  \cup {[kind |-> "dirty", at |-> k] : k \in 1..n}

\* The exits of do_ls once the directory is open: the else branch of the
\* loop (diagnostic, closedir, -1) and the end of the loop (closedir, 0).
LsFail(acc, en) ==
  [acc EXCEPT !.ev = Append(@, Err("ls", <<"Cannot read entry", en>>)),
              !.closed = @ + 1,
              !.ret = -1]

LsDone(acc) == [acc EXCEPT !.closed = @ + 1, !.ret = 0]

\* The while loop of do_ls from readdir call i on, with errno as it stands:
\* the loop ends when readdir returns NULL, and errno is looked at only for
\* an entry that was returned.
RECURSIVE LsLoop(_, _, _, _)
LsLoop(script, i, errno, acc) ==
  LET x == script[i]
      en == IF x.e # "" THEN x.e ELSE errno
  IN  IF x.name # <<>>
      THEN IF en = ""
           THEN LsLoop(script, i + 1, en,
                       [acc EXCEPT !.ev = Append(@, Out("entry", x.name))])
           ELSE LsFail(acc, en)
      ELSE LsDone(acc)

\* do_ls(dirname)
do_ls(dirname, ev, d, f, c) ==
  LET r == Lookup(dirname, c, d, f)
      e == IF r.err # "" THEN r.err
           ELSE IF r.kind = "none" THEN "ENOENT"
           ELSE IF r.kind = "file" THEN "ENOTDIR" ELSE ""
  IN  IF e # ""
      THEN Result(-1, <<Err("ls", <<e>>)>>, d, f, c)
      ELSE LsLoop(ReaddirScript(Entries(r.path, d, f), ev), 1, "",
                  [Result(0, <<>>, d, f, c) EXCEPT !.opened = 1])

\* The events do_ls may meet on dirname.
LsOutcomes(dirname, d, f, c) ==
  LET r == Lookup(dirname, c, d, f)
  IN  IF r.err = "" /\ r.kind = "dir"
      THEN LsEvents(Len(Entries(r.path, d, f)))
      ELSE {[kind |-> "eof", at |-> 0]}

\* The bytes of a file, by its name: "f" holds more than one chunk, every
\* other file less than one.
Content(p) ==
  IF p[Len(p)] = <<"f">> THEN Rep("x", BUFFER_SIZE) \o <<"y", "z">>
  ELSE <<"a", "b", "c">>

\* The pieces read(fd, buffer, BUFFER_SIZE) delivers a regular file in.
RECURSIVE Chunks(_)
Chunks(bytes) ==
  IF bytes = <<>> THEN <<>>
  ELSE <<Take(bytes, Min(BUFFER_SIZE, Len(bytes)))>>
       \o Chunks(Drop(bytes, Min(BUFFER_SIZE, Len(bytes))))

\* The read results of one do_cat call: [n, data, e], n the byte count, 0 at
\* the end of the file, -1 on an error with errno e.  rfail = 0 for no
\* error, else the number of the read that fails.  A directory opens
\* read-only and fails its first read.
ReadScript(r, rfail) ==
  LET cs == Chunks(Content(r.path))
      ok(k) == [i \in 1..k |-> [n |-> Len(cs[i]), data |-> cs[i], e |-> ""]]
  IN  IF r.kind = "dir" THEN <<[n |-> -1, data |-> <<>>, e |-> "EISDIR"]>>
      ELSE IF rfail = 0 THEN Append(ok(Len(cs)), [n |-> 0, data |-> <<>>, e |-> ""])
      ELSE Append(ok(rfail - 1), [n |-> -1, data |-> <<>>, e |-> "EIO"])

\* The error branch of the loop of do_cat as it would be without its
\* close(fd): the leak that C4 excludes.
CatFail_NoClose(acc, e) ==
  [acc EXCEPT !.ev = Append(@, Err("cat", <<"cannot read file", e>>)),
              !.ret = -1]

\* The exits of do_cat once the file is open: the error branch of the loop
\* (close, diagnostic, -1) and the end of the loop (close, 0).
CatFail(acc, e) ==
  [acc EXCEPT !.closed = @ + 1,
              !.ev = Append(@, Err("cat", <<"cannot read file", e>>)),
              !.ret = -1]

CatDone(acc) == [acc EXCEPT !.closed = @ + 1, !.ret = 0]

\* The while loop of do_cat from read i on.  wfail = 0, or the number of the
\* write(1, ...) that fails (returns -1, nothing written).
RECURSIVE CatLoop(_, _, _, _)
CatLoop(script, i, wfail, acc) ==
  LET x == script[i]
  IN  IF x.n # 0
      THEN IF x.n = -1 \/ i = wfail
           THEN CatFail(acc, IF x.n = -1 THEN x.e ELSE "EPIPE")
           ELSE CatLoop(script, i + 1, wfail,
                        [acc EXCEPT !.ev = @ \o <<W1("data", x.data), Out("nl", <<>>)>>])
      ELSE CatDone(acc)

\* do_cat(filename).  A failed open yields -1; close(-1) releases nothing and
\* leaves EBADF in errno for the diagnostic.
do_cat(filename, io, d, f, c) ==
  LET r == Lookup(filename, c, d, f)
      fd == IF r.err # "" \/ r.kind = "none" THEN -1 ELSE 3
  IN  IF fd = -1
      THEN Result(fd, <<Err("cat", <<"Cannot open file", "EBADF">>)>>, d, f, c)
      ELSE CatLoop(ReadScript(r, io.rfail), 1, io.wfail,
                   [Result(0, <<>>, d, f, c) EXCEPT !.opened = 1])

\* The read and write failures do_cat may meet on filename.
CatOutcomes(filename, d, f, c) ==
  LET r == Lookup(filename, c, d, f)
      k == IF r.err = "" /\ r.kind = "file" THEN Len(Chunks(Content(r.path))) ELSE 0
  IN  {[rfail |-> a, wfail |-> 0] : a \in 0..(k + 1)}
      \cup {[rfail |-> 0, wfail |-> b] : b \in 1..k}

\* do_mkdir(dirname)
do_mkdir(dirname, d, f, c) ==
  LET r == Lookup(dirname, c, d, f)
      e == IF r.err # "" THEN r.err
           ELSE IF r.kind # "none" THEN "EEXIST" ELSE ""
  IN  IF e # ""
      THEN Result(-1, <<Err("mkdir", <<"Cannot create directory", e>>)>>, d, f, c)
      ELSE Result(0, <<>>, d \cup {r.path}, f, c)

\* do_rmdir(dirname)
do_rmdir(dirname, d, f, c) ==
  LET r == Lookup(dirname, c, d, f)
      e == IF r.err # "" THEN r.err
           ELSE IF r.kind = "none" THEN "ENOENT"
           ELSE IF r.kind = "file" THEN "ENOTDIR"
           ELSE IF LastComp(dirname) = DOT THEN "EINVAL"
           ELSE IF LastComp(dirname) = DOTDOT THEN "ENOTEMPTY"
           ELSE IF r.path = <<>> THEN "EBUSY"
           ELSE IF Len(Entries(r.path, d, f)) > 2 THEN "ENOTEMPTY"
           ELSE ""
  IN  IF e # ""
      THEN Result(-1, <<Err("rmdir", <<"Cannot remove directory", e>>)>>, d, f, c)
      ELSE Result(0, <<>>, d \ {r.path}, f, c)

\* The contents of the current_dir array of do_pwd when getcwd did not fill
\* it: some bytes that are no path, or a path an earlier call left there.
Uninit == {<<"?">>, <<SLASH>>}

\* do_pwd().  junk is what the array holds when getcwd fails.
do_pwd(junk, d, f, c) ==
  LET e == Getcwd(d, c)
  IN  IF e # ""
      THEN Result(1, <<Err("pwd", <<"Could not find current directory", e>>),
                       Out("pwd", junk)>>, d, f, c)
      ELSE Result(1, <<Out("pwd", AbsStr(c))>>, d, f, c)

PwdOutcomes(d, c) == IF Getcwd(d, c) # "" THEN Uninit ELSE {<<"?">>}

\* do_rm(filename)
do_rm(filename, d, f, c) ==
  LET r == Lookup(filename, c, d, f)
      e == IF r.err # "" THEN r.err
           ELSE IF r.kind = "none" THEN "ENOENT"
           ELSE IF r.kind = "dir" THEN "EISDIR" ELSE ""
  IN  IF e # ""
      THEN Result(-1, <<Err("rm", <<"Cannot remove file", e>>)>>, d, f, c)
      ELSE Result(0, <<>>, d, f \ {r.path}, c)

\* do_stat(filename).  The report is one output event.
do_stat(filename, d, f, c) ==
  LET r == Lookup(filename, c, d, f)
      e == IF r.err # "" THEN r.err
           ELSE IF r.kind = "none" THEN "ENOENT" ELSE ""
  IN  IF e # ""
      THEN Result(-1, <<Err("stat", <<"Cannot retrieve file stats", e>>)>>, d, f, c)
      ELSE Result(0, <<Out("stat", filename)>>, d, f, c)

\* do_q(), and the exit(EXIT_SUCCESS) of main: status 0.
do_q(d, f, c) == [Result(0, <<>>, d, f, c) EXCEPT !.proc = "exited"]

\* ------------------------------------------------------------------------
\* Dispatch
\* ------------------------------------------------------------------------
W_cd == <<"c", "d">>
W_exit == <<"e", "x", "i", "t">>
W_cat == <<"c", "a", "t">>
W_stat == <<"s", "t", "a", "t">>
W_mkdir == <<"m", "k", "d", "i", "r">>
W_rmdir == <<"r", "m", "d", "i", "r">>
W_rm == <<"r", "m">>
W_ls == <<"l", "s">>
W_pwd == <<"p", "w", "d">>
W_q == <<"q">>

\* The chain of tests of execute_command(buffer): the built-in it calls and
\* the contents of filename it calls it with; "invalid" when it reaches the
\* end.  filename is all zeroes on entry (main cleared it and its own sscanf
\* stored nothing).
execute_command(buf) ==
  LET try(w) == Sscanf(buf, w)
  IN  IF try(W_cat).n = 1 THEN [op |-> "cat", arg |-> try(W_cat).tok]
      ELSE IF try(W_stat).n = 1 THEN [op |-> "stat", arg |-> try(W_stat).tok]
      ELSE IF try(W_mkdir).n = 1 THEN [op |-> "mkdir", arg |-> try(W_mkdir).tok]
      ELSE IF try(W_rmdir).n = 1 THEN [op |-> "rmdir", arg |-> try(W_rmdir).tok]
      ELSE IF try(W_rm).n = 1 THEN [op |-> "rm", arg |-> try(W_rm).tok]
      ELSE IF try(W_ls).n = 1 \/ StrEq(buf, W_ls)
           THEN [op |-> "ls",
                 arg |-> IF Len(Take(try(W_ls).tok, BUFFER_SIZE)) = 0
                         THEN DOT ELSE try(W_ls).tok]
      ELSE IF StrEq(buf, W_pwd) THEN [op |-> "pwd", arg |-> <<>>]
      ELSE IF try(W_q).n = 1 \/ StrEq(buf, W_q)
           THEN [op |-> "q", arg |-> try(W_q).tok]
      ELSE [op |-> "invalid", arg |-> <<>>]

\* The end of execute_command as it would be without its test of the length
\* of the line: the diagnostic for an empty line that C9 excludes.
InvalidCommand_Always(buf, d, f, c) ==
  Result(-1, <<Err("myshell", buf)>>, d, f, c)

\* The end of execute_command: the diagnostic for a line that is not empty.
InvalidCommand(buf, d, f, c) ==
  IF Len(Take(buf, BUFFER_SIZE)) # 0
  THEN Result(-1, <<Err("myshell", buf)>>, d, f, c)
  ELSE Result(-1, <<>>, d, f, c)

\* The tests of main on the stripped line, then execute_command.
Dispatch(buf) ==
  IF Sscanf(buf, W_cd).n = 1 \/ StrEq(buf, W_cd)
  THEN [op |-> "cd", arg |-> Sscanf(buf, W_cd).tok]
  ELSE IF StrEq(buf, W_exit) THEN [op |-> "exit", arg |-> <<>>]
  ELSE execute_command(buf)

\* ------------------------------------------------------------------------
\* The lines typed
\* ------------------------------------------------------------------------
N_d == <<"d">>
N_f == <<"f">>
N_g == <<"g">>
N_nx == <<"n", "x">>
\* A name so long that the path of a directory of that name inside another
\* does not fit MAX_PATH_LENGTH.
LongLen == 130
N_long == Rep("a", LongLen)

Cmd(w, a) == w \o <<SP>> \o a

\* A line of more than BUFFER_SIZE - 1 characters: "ls ", a run of "a" that
\* fills the buffer, and "pwd".
OverLong == Cmd(W_ls, Rep("a", BUFFER_SIZE - 4)) \o W_pwd

InputLines ==
  { <<>>, <<SP, SP>>, <<TAB>>,
    W_cd, Cmd(W_cd, N_d), Cmd(W_cd, DOTDOT), Cmd(W_cd, N_nx), Cmd(W_cd, N_f),
    Cmd(W_cd, N_long), Cmd(W_cd, Home), W_cd \o N_d, Cmd(Cmd(W_cd, N_d), N_f),
    W_exit, Cmd(W_exit, N_d), W_exit \o N_d,
    W_cat, Cmd(W_cat, N_f), Cmd(W_cat, N_g), Cmd(W_cat, N_nx), Cmd(W_cat, N_d),
    W_cat \o N_g, Cmd(Cmd(W_cat, N_g), N_d), W_cat \o <<TAB>> \o N_g \o <<SP>>,
    Cmd(W_stat, N_f), Cmd(W_stat, N_nx), W_stat,
    Cmd(W_mkdir, N_d), Cmd(W_mkdir, N_f), W_mkdir,
    Cmd(W_rmdir, N_d), Cmd(W_rmdir, N_f), W_rmdir,
    Cmd(W_rm, N_f), Cmd(W_rm, N_nx), W_rm \o N_g, W_rm,
    W_ls, Cmd(W_ls, N_d), Cmd(W_ls, N_nx), W_ls \o N_d, Cmd(Cmd(W_ls, N_d), N_d),
    W_pwd, Cmd(W_pwd, N_d), W_pwd \o N_d,
    W_q, Cmd(W_q, N_d), W_q \o <<"u", "i", "t">>,
    <<"f", "r", "o", "b">>, <<SP>> \o W_ls, Cmd(<<"f", "r", "o", "b">>, N_d),
    OverLong }

\* ------------------------------------------------------------------------
\* State
\* ------------------------------------------------------------------------
VARIABLES
  dirs,      \* the directories that exist
  files,     \* the regular files that exist
  cwd,       \* the working directory of the process
  pending,   \* what fgets left in stdin of the line being read
  obuf,      \* the buffer of stdout
  mode,      \* "line" or "full": how stdout is buffered
  handles,   \* open file descriptors and directory streams of the built-ins
  proc,      \* "running", "exited" or "crashed"
  status,    \* the exit status
  eof,       \* stdin is at its end
  n,         \* iterations of the loop of main so far
  last       \* what the last iteration read and did

vars == <<dirs, files, cwd, pending, obuf, mode, handles, proc, status, eof, n, last>>

Init ==
  /\ dirs = {<<>>, <<N_d>>, <<<<"h">>>>, <<N_long>>, <<N_long, N_long>>}
  /\ files = {<<N_f>>, <<N_g>>}
  /\ cwd = <<>>
  /\ pending = <<>>
  /\ obuf = <<>>
  /\ mode \in {"line", "full"}
  /\ handles = 0
  /\ proc = "running"
  /\ status = 0
  /\ eof = FALSE
  /\ n = 0
  /\ last = [op |-> "init", arg |-> <<>>, ret |-> 0, raw |-> <<>>, line |-> <<>>,
             low |-> 0, cut |-> FALSE, cont |-> FALSE, env |-> "",
             err |-> <<>>, printed |-> <<>>, out |-> <<>>, opened |-> 0]

\* ------------------------------------------------------------------------
\* One iteration of the loop of main
\* ------------------------------------------------------------------------
\* fgets, strip_trailing_whitespace and the dispatch on the bytes stream that
\* wait in stdin.
Begin(stream, under, cont) ==
  LET g == Fgets(stream)
      st == strip_trailing_whitespace(g.buf, under)
  IN  [raw |-> g.buf, rest |-> g.rest, line |-> st.str, low |-> st.low,
       cut |-> g.buf[Len(g.buf)] # NL, cont |-> cont, dsp |-> Dispatch(st.str)]

FreshReads ==
  {Begin(Append(l, NL), u, FALSE) : l \in InputLines, u \in 0..MaxUnder}

Reads ==
  IF pending = <<>> THEN FreshReads
  ELSE {Begin(pending, u, TRUE) : u \in 0..MaxUnder}

Ready == proc = "running" /\ ~eof /\ n < MaxCmds

\* display_prompt, then fgets: the buffer of stdout when the built-in starts.
\* A line-buffered stdout is written out when stdin has to be read.
AfterPrompt ==
  LET shown == IF Getcwd(dirs, cwd) = "" THEN <<Earlier>> ELSE obuf
  IN  IF mode = "line" /\ pending = <<>> THEN <<>> ELSE shown

\* The state after the iteration that read it and ran a built-in with result
\* r; env names what the environment did to the built-in.
Commit(it, r, env) ==
  LET a0 == [err |-> <<>>, printed |-> <<>>, out |-> <<>>, obuf |-> AfterPrompt]
      a1 == Emit(r.ev, a0, mode)
      a == IF r.proc = "exited" THEN Flush(a1) ELSE a1
  IN  /\ dirs' = r.dirs
      /\ files' = r.files
      /\ cwd' = r.cwd
      /\ pending' = it.rest
      /\ obuf' = IF a.obuf = <<>> THEN <<>> ELSE <<Earlier>>
      /\ handles' = handles + r.opened - r.closed
      /\ proc' = r.proc
      /\ status' = IF r.proc = "crashed" THEN 139 ELSE 0
      /\ n' = n + 1
      /\ last' = [op |-> IF it.dsp.op = "invalid" THEN "none" ELSE it.dsp.op,
                  arg |-> it.dsp.arg, ret |-> r.ret, raw |-> it.raw,
                  line |-> it.line, low |-> it.low, cut |-> it.cut,
                  cont |-> it.cont, env |-> env,
                  err |-> a.err, printed |-> a.printed, out |-> a.out,
                  opened |-> r.opened]
      /\ UNCHANGED <<mode, eof>>

StepCd ==
  /\ Ready
  /\ \E it \in Reads :
       /\ it.dsp.op = "cd"
       /\ \E pw \in PwOutcomes(it.dsp.arg) :
            Commit(it, do_cd(it.dsp.arg, pw, dirs, files, cwd), pw)

StepExit ==
  /\ Ready
  /\ \E it \in Reads :
       /\ it.dsp.op = "exit"
       /\ Commit(it, do_q(dirs, files, cwd), "")

StepCat ==
  /\ Ready
  /\ \E it \in Reads :
       /\ it.dsp.op = "cat"
       /\ \E io \in CatOutcomes(it.dsp.arg, dirs, files, cwd) :
            Commit(it, do_cat(it.dsp.arg, io, dirs, files, cwd),
                   IF io.rfail # 0 THEN "rfail"
                   ELSE IF io.wfail # 0 THEN "wfail" ELSE "ok")

StepStat ==
  /\ Ready
  /\ \E it \in Reads :
       /\ it.dsp.op = "stat"
       /\ Commit(it, do_stat(it.dsp.arg, dirs, files, cwd), "")

StepMkdir ==
  /\ Ready
  /\ \E it \in Reads :
       /\ it.dsp.op = "mkdir"
       /\ Commit(it, do_mkdir(it.dsp.arg, dirs, files, cwd), "")

StepRmdir ==
  /\ Ready
  /\ \E it \in Reads :
       /\ it.dsp.op = "rmdir"
       /\ Commit(it, do_rmdir(it.dsp.arg, dirs, files, cwd), "")

StepRm ==
  /\ Ready
  /\ \E it \in Reads :
       /\ it.dsp.op = "rm"
       /\ Commit(it, do_rm(it.dsp.arg, dirs, files, cwd), "")

StepLs ==
  /\ Ready
  /\ \E it \in Reads :
       /\ it.dsp.op = "ls"
       /\ \E ev \in LsOutcomes(it.dsp.arg, dirs, files, cwd) :
            Commit(it, do_ls(it.dsp.arg, ev, dirs, files, cwd), ev.kind)

StepPwd ==
  /\ Ready
  /\ \E it \in Reads :
       /\ it.dsp.op = "pwd"
       /\ \E junk \in PwdOutcomes(dirs, cwd) :
            Commit(it, do_pwd(junk, dirs, files, cwd), "")

StepQ ==
  /\ Ready
  /\ \E it \in Reads :
       /\ it.dsp.op = "q"
       /\ Commit(it, do_q(dirs, files, cwd), "")

StepInvalid ==
  /\ Ready
  /\ \E it \in Reads :
       /\ it.dsp.op = "invalid"
       /\ Commit(it, InvalidCommand(it.line, dirs, files, cwd), "")

\* fgets returns NULL at the end of stdin, and does so from then on: the loop
\* goes on prompting and nothing else happens.
StepEof ==
  /\ Ready
  /\ pending = <<>>
  /\ eof' = TRUE
  /\ obuf' = AfterPrompt
  /\ UNCHANGED <<dirs, files, cwd, pending, mode, handles, proc, status, n, last>>

Next ==
  \/ StepCd
  \/ StepExit
  \/ StepCat
  \/ StepStat
  \/ StepMkdir
  \/ StepRmdir
  \/ StepRm
  \/ StepLs
  \/ StepPwd
  \/ StepQ
  \/ StepInvalid
  \/ StepEof

Spec == Init /\ [][Next]_vars

\* ------------------------------------------------------------------------
\* Properties
\* ------------------------------------------------------------------------
KnownVerbs ==
  {W_cd, W_exit, W_cat, W_stat, W_mkdir, W_rmdir, W_rm, W_ls, W_pwd, W_q}

\* The verb of a line: its first whitespace-delimited token.
Verb(line) == IF Tokens(line) = <<>> THEN <<>> ELSE Tokens(line)[1]

\* The command name of the built-in op.
VerbOf(op) ==
  CASE op = "cd" -> W_cd [] op = "exit" -> W_exit [] op = "cat" -> W_cat
    [] op = "stat" -> W_stat [] op = "mkdir" -> W_mkdir
    [] op = "rmdir" -> W_rmdir [] op = "rm" -> W_rm [] op = "ls" -> W_ls
    [] op = "pwd" -> W_pwd [] OTHER -> W_q

\* last describes an iteration, and one that called a built-in.
Stepped == last.op # "init"
Called == last.op \notin {"init", "none"}

Blank(s) == \A i \in 1..Len(s) : IsSpace(s[i])

\* s without its trailing whitespace.
TrimRight(s) ==
  LET K == {i \in 1..Len(s) : ~IsSpace(s[i])}
  IN  IF K = {} THEN <<>> ELSE Take(s, CHOOSE i \in K : \A j \in K : j <= i)

\* C1: a line that is not empty and whose verb is none of the ten command
\* names calls no built-in, leaves the process running, writes exactly one
\* diagnostic, which holds the whole line, and yields -1.
C1_UnknownVerbRejected ==
  (Stepped /\ last.line # <<>> /\ Verb(last.line) \notin KnownVerbs)
  => /\ last.op = "none"
     /\ proc = "running"
     /\ last.err = <<[t |-> "myshell", s |-> last.line]>>
     /\ last.ret = -1

\* C2: a built-in is called only for a line that is its verb alone (cd, ls,
\* pwd, exit, q) or its verb and exactly one argument token (every verb but
\* pwd, exit, q).
C2_DispatchOnlyOnExactForm ==
  Called =>
    LET ts == Tokens(last.line)
    IN  /\ ~IsSpace(last.line[1])
        /\ ts[1] = VerbOf(last.op)
        /\ \/ Len(ts) = 1 /\ last.op \in {"cd", "ls", "pwd", "exit", "q"}
           \/ Len(ts) = 2 /\ last.op \notin {"pwd", "exit", "q"}

\* C3: the process has ended only by exit or q, with status 0.
C3_EndsOnlyByExit ==
  proc # "running" =>
    /\ proc = "exited"
    /\ status = 0
    /\ last.op \in {"exit", "q"}

\* C4: whenever control is back at the read point of the loop, no file or
\* directory handle of a built-in is open.
C4_NoHandleLeft == handles = 0

\* C4: do_cat has opened a file and a later read of it failed, after an
\* earlier command.
C4_Witness ==
  n >= 2 /\ last.op = "cat" /\ last.opened = 1 /\ last.env = "rfail" /\ last.ret = -1

\* C5: when readdir fails in an open directory, do_ls writes one ls
\* diagnostic and returns -1; it returns 0 only on the end of the entries.
C5_LsReportsReadFailure ==
  (last.op = "ls" /\ last.opened = 1) =>
    /\ last.env = "readerr"
         => last.ret = -1 /\ Len(last.err) = 1 /\ last.err[1].t = "ls"
    /\ last.ret = 0 => last.env = "eof"

\* C6: no built-in gets an argument longer than the buffer bound, none is
\* called on a line fgets cut, and none on the rest of such a line.
C6_NoSilentTruncation ==
  Called =>
    /\ Len(last.arg) + 1 <= MAX_FILENAME_LENGTH
    /\ ~last.cut
    /\ ~last.cont

\* The chunks cs, each followed by a newline.
RECURSIVE Interleaved(_)
Interleaved(cs) ==
  IF cs = <<>> THEN <<>>
  ELSE <<[t |-> "data", s |-> Head(cs)], [t |-> "nl", s |-> <<>>]>>
       \o Interleaved(Tail(cs))

\* C7: do_cat on a regular file whose reads and writes all succeed makes
\* descriptor 1 receive chunk, newline, chunk, newline, ... and returns 0;
\* on a file that cannot be opened it writes nothing to stdout, writes one
\* diagnostic and returns a negative value.
C7_CatChunkNewline ==
  last.op = "cat" =>
    LET r == Lookup(last.arg, cwd, dirs, files)
    IN  /\ (last.opened = 1 /\ r.kind = "file" /\ last.env = "ok")
             => /\ last.out = Interleaved(Chunks(Content(r.path)))
                /\ last.ret = 0
        /\ last.opened = 0
             => /\ last.printed = <<>>
                /\ last.out = <<>>
                /\ Len(last.err) = 1
                /\ last.ret < 0

\* tok names a directory for a process in directory c.
ValidDir(tok, c, d, f) ==
  LET r == Lookup(tok, c, d, f) IN r.err = "" /\ r.kind = "dir"

\* C8: cd with a valid directory returns 0 and a pwd right after it prints
\* that directory; cd with an invalid argument leaves the working directory
\* alone, writes one cd diagnostic and returns -1.
C8_CdThenPwd ==
  [][ /\ (n' # n /\ last'.op = "cd" /\ last'.arg # <<>>)
        => IF ValidDir(last'.arg, cwd, dirs, files)
           THEN /\ last'.ret = 0
                /\ cwd' = Lookup(last'.arg, cwd, dirs, files).path
           ELSE /\ last'.ret = -1
                /\ cwd' = cwd
                /\ Len(last'.err) = 1 /\ last'.err[1].t = "cd"
      /\ (n' # n /\ last.op = "cd" /\ last.arg # <<>> /\ last.ret = 0
          /\ last'.op = "pwd")
        => last'.printed = <<[t |-> "pwd", s |-> AbsStr(cwd)]>>
    ]_vars

\* C9: a line that is empty or all whitespace calls no built-in, changes
\* neither the working directory nor the file system, and writes nothing to
\* stderr.
C9_BlankLineDoesNothing ==
  [][ (n' # n /\ Blank(last'.raw))
        => /\ last'.op = "none"
           /\ last'.err = <<>>
           /\ dirs' = dirs /\ files' = files /\ cwd' = cwd
           /\ proc' = "running" /\ handles' = handles
    ]_vars

\* C9: a blank line has been read after commands that changed the working
\* directory and the file system.
C9_Witness ==
  /\ n >= 3 /\ Stepped /\ Blank(last.raw)
  /\ cwd # <<>>
  /\ <<N_d, N_d>> \in dirs

\* C10: strip_trailing_whitespace reads no index below 0, and leaves the
\* line without its trailing whitespace and otherwise unchanged.
C10_StripStaysInBuffer ==
  Stepped =>
    /\ last.low >= 0
    /\ last.line = TrimRight(last.raw)

====
